---- MODULE Spec2Model ----
(***************************************************************************)
(* A model of readthedocs/oauth/utils.py: OAuth session lookup, project    *)
(* token lookup, GitHub and Bitbucket pagination, the two importers and    *)
(* the webhook registrars.                                                 *)
(*                                                                         *)
(* Text is modelled as a sequence of string fragments whose concatenation  *)
(* is the text (so <<"https://api.github.com/orgs/", "acme">> is the URL   *)
(* produced by 'https://api.github.com/orgs/%s' % 'acme').                 *)
(*                                                                         *)
(* A JSON value is a node [k, s, a]: k is its kind ("null", "bool", "num", *)
(* "str", "arr", "obj"), s its text (for "bool" and "str"; for "num" the   *)
(* text str() gives of the decoded number, "0" or "0.0" or "-0.0" for a    *)
(* zero), and a its children: the items of an array, or the entries of an  *)
(* object text, an entry being a node of kind "entry" with the key in s    *)
(* and the value as its one child. An object text may repeat a key: the    *)
(* decoded dict then holds the key once, at its first place, with its last *)
(* value.                                                                  *)
(***************************************************************************)
EXTENDS Integers, Sequences, FiniteSets, TLC

VARIABLES
    tokens,     \* the SocialToken rows, in database order
    accounts,   \* the SocialAccount rows
    settings,   \* django.conf.settings: each name is <<>> (unset) or <<value>>
    db,         \* the RemoteRepository / RemoteOrganization rows
    created,    \* history: the rows upserted by the running call
    http,       \* history: the HTTP requests issued, in order
    pages,      \* history: the responses received by the running paginator
    log,        \* the log lines written
    queries,    \* history: [api, store] lookups made by get_token_for_project
    call,       \* the running call: its function and arguments
    pc,         \* the position of the running call
    session,    \* local: the OAuth session of the running call
    url,        \* local of the paginators: the next URL to fetch
    result,     \* the paginator's accumulated result, then the caller's copy
                \* of it (owner_resp, org_repos_resp, org_resp) until its
                \* last use
    pgRet,      \* the call site the running paginator returns to
    todo,       \* local: what the running loop has still to iterate over
    org_obj,    \* local of import_github: the organization being imported
    social_account, \* local of import_bitbucket: the account row, if bound
    fetched,    \* history: the number of pages the running paginator fetched
    shapes,     \* history: the kind of body of each of these pages
    arisen,     \* history: the exceptions that arose, as <<type, phase>>
    invoked,    \* history: the webhook registrations invoked, in order
    outcome     \* how the call ended: returned a value, or raised

vars == <<tokens, accounts, settings, db, created, http, pages, log, queries,
          call, pc, session, url, result, pgRet, todo, org_obj, social_account,
          fetched, shapes, arisen, invoked, outcome>>

----------------------------------------------------------------------------
(* Bounds of the model. *)

MaxTokens == 2
MaxItems == 2
MaxRepos == 1
MaxPages == 3
MaxSyncPages == 2
MaxOrgs == 1
MaxCalls == 3

Users == {"alice", "bob"}

GitHubProviderId == "github"
BitbucketProviderId == "bitbucket"
Providers == {GitHubProviderId, BitbucketProviderId}

\* All sequences over S of length at most n.
SeqsUpTo(S, n) == UNION {[1..m -> S] : m \in 0..n}

----------------------------------------------------------------------------
(* JSON values and the Python operations the code applies to them. *)

JNull == [k |-> "null", s |-> "", a |-> <<>>]
JNum(t) == [k |-> "num", s |-> t, a |-> <<>>]
JStr(t) == [k |-> "str", s |-> t, a |-> <<>>]
JBool(b) == [k |-> "bool", s |-> IF b THEN "true" ELSE "false", a |-> <<>>]
JArr(items) == [k |-> "arr", s |-> "", a |-> items]
JEntry(key, val) == [k |-> "entry", s |-> key, a |-> <<val>>]
JObj(entries) == [k |-> "obj", s |-> "", a |-> entries]

HasKey(j, key) == \E i \in 1..Len(j.a) : j.a[i].s = key

\* The value under key (of the last entry with that key, as json.loads keeps).
ValueOf(j, key) ==
    LET i == CHOOSE n \in 1..Len(j.a) :
                 /\ j.a[n].s = key
                 /\ \A m \in (n+1)..Len(j.a) : j.a[m].s # key
    IN j.a[i].a[1]

\* list(j) of a dict: its keys, each once. The order is the interpreter's:
\* the order of first occurrence in the text under one, an order of the
\* hashes under another; Keys is the set of the orders a build may give.
Keys(j) ==
    LET ks == {j.a[i].s : i \in 1..Len(j.a)}
        n == Cardinality(ks)
    IN {[i \in 1..n |-> JStr(f[i])] :
           f \in {g \in [1..n -> ks] : \A a, b \in 1..n : g[a] = g[b] => a = b}}

\* list(j) of a string: its characters.
Chars(t) == [i \in 1..Len(t) |-> JStr(SubSeq(t, i, i))]

\* bool(j)
Truthy(j) ==
    CASE j.k = "null" -> FALSE
      [] j.k = "bool" -> j.s = "true"
      [] j.k = "num" -> j.s \notin {"0", "0.0", "-0.0"}
      [] j.k = "str" -> j.s # ""
      [] j.k = "arr" -> j.a # <<>>
      [] j.k = "obj" -> j.a # <<>>

\* iter(j), as the set of its possible outcomes: an array yields its items,
\* an object its keys in one of their orders, a string its characters; a
\* number, a boolean or null is not iterable.
PyIter(j) ==
    CASE j.k = "arr" -> {[exc |-> "", seq |-> j.a]}
      [] j.k = "obj" -> {[exc |-> "", seq |-> ks] : ks \in Keys(j)}
      [] j.k = "str" -> {[exc |-> "", seq |-> Chars(j.s)]}
      [] j.k \in {"null", "bool", "num"} -> {[exc |-> "TypeError", seq |-> <<>>]}

\* The argument of session.get and the local `url` of the paginators: a
\* text, given by its fragments, or any other value, None included.
Text(frags) == [text |-> frags, val |-> JNull]
NoUrl == [text |-> <<>>, val |-> JNull]
UrlValue(j) == IF j.k = "str" THEN Text(<<j.s>>) ELSE [text |-> <<>>, val |-> j]

\* bool(url), the test of `while url:`
UrlTruthy(u) == (\E i \in 1..Len(u.text) : u.text[i] # "") \/ Truthy(u.val)

\* j[key] for a string key.
PyGetItem(j, key) ==
    IF j.k = "obj"
    THEN IF HasKey(j, key)
         THEN [exc |-> "", val |-> ValueOf(j, key)]
         ELSE [exc |-> "KeyError", val |-> JNull]
    ELSE [exc |-> "TypeError", val |-> JNull]

\* j.get(key): only a dict has the method.
PyGet(j, key) ==
    IF j.k = "obj"
    THEN [exc |-> "", val |-> IF HasKey(j, key) THEN ValueOf(j, key) ELSE JNull]
    ELSE [exc |-> "AttributeError", val |-> JNull]

\* r.json(): the decoded body, or ValueError when the body is not JSON.
RJson(r) == IF r.valid THEN [exc |-> "", val |-> r.json]
                       ELSE [exc |-> "ValueError", val |-> JNull]

\* getattr(settings, name, default)
Getattr(s, name, default) == IF s[name] = <<>> THEN default ELSE s[name][1]

----------------------------------------------------------------------------
(* The credential store. *)

TokenRows ==
    [username : Users, provider : Providers, token : {"tokA", "tokB"},
     token_secret : {"tsecret"}, client_id : {"cid"}, secret : {"csecret"}]

Stores == SeqsUpTo(TokenRows, MaxTokens)

\* SocialToken.objects.filter(account__user__username=..., app__provider=...)
RECURSIVE FilterTokens(_, _, _)
FilterTokens(rows, username, provider) ==
    IF rows = <<>> THEN <<>>
    ELSE LET rest == FilterTokens(Tail(rows), username, provider)
         IN IF Head(rows).username = username /\ Head(rows).provider = provider
            THEN <<Head(rows)>> \o rest
            ELSE rest

NoSession == [kind |-> "None"]

get_oauth_session(rows, username, provider) ==
    LET matching == FilterTokens(rows, username, provider) IN
    IF matching = <<>> THEN [exc |-> "", val |-> NoSession]
    ELSE LET token == matching[1] IN
         CASE provider = GitHubProviderId ->
                [exc |-> "",
                 val |-> [kind |-> "OAuth2", client_id |-> token.client_id,
                          access_token |-> token.token, token_type |-> "bearer"]]
           [] provider = BitbucketProviderId ->
                [exc |-> "",
                 val |-> [kind |-> "OAuth1", client_id |-> token.client_id,
                          client_secret |-> token.secret,
                          resource_owner_key |-> token.token,
                          resource_owner_secret |-> token.token_secret]]
           [] OTHER -> [exc |-> "UnboundLocalError", val |-> NoSession]

----------------------------------------------------------------------------
(* get_token_for_project *)

None == <<>>
Some(x) == <<x>>

Flag == {<<>>, <<TRUE>>, <<FALSE>>}

SettingsSpace ==
    [ALLOW_PRIVATE_REPOS : Flag, DONT_HIT_DB : Flag,
     PRODUCTION_DOMAIN : {<<"readthedocs.org">>}]

\* project.users.all(): the project's users, without repetition.
ProjectUsers == {us \in SeqsUpTo(Users, Cardinality(Users)) :
                    \A i, j \in 1..Len(us) : us[i] = us[j] => i = j}

\* What the collaborators do during one lookup: the remote API raises or
\* answers with a token (possibly none); the credential store raises at
\* the query for the failAt-th user (0: at none).
LookupEnvs(users) ==
    [apiRaises : BOOLEAN, apiToken : {None, Some("tokR")}, failAt : 0..Len(users)]

AllowPrivateReposTrueDefault(s) == Getattr(s, "ALLOW_PRIVATE_REPOS", TRUE)

\* getattr(settings, 'ALLOW_PRIVATE_REPOS', False)
AllowPrivateRepos(s) == Getattr(s, "ALLOW_PRIVATE_REPOS", FALSE)

\* getattr(settings, 'DONT_HIT_DB', True) and not force_local
UseRemoteApi(s, force_local) == Getattr(s, "DONT_HIT_DB", TRUE) /\ ~force_local

\* The loop over project.users.all(), from user i on, token being the value
\* of the local so far: [token, raised, n], n the store queries made.
RECURSIVE LocalLookup(_, _, _, _, _)
LocalLookup(rows, users, i, failAt, token) ==
    IF i > Len(users) THEN [token |-> token, raised |-> FALSE, n |-> i - 1]
    ELSE IF i = failAt THEN [token |-> token, raised |-> TRUE, n |-> i]
    ELSE LET matching == FilterTokens(rows, users[i], GitHubProviderId)
         IN LocalLookup(rows, users, i + 1, failAt,
                        IF matching # <<>> THEN Some(matching[1].token) ELSE token)

\* [val, raised, api, store]: the value returned, whether an exception was
\* caught (and logged), and the remote and local queries made.
get_token_for_project(s, rows, users, force_local, env) ==
    IF ~AllowPrivateRepos(s)
    THEN [val |-> None, raised |-> FALSE, api |-> 0, store |-> 0]
    ELSE IF UseRemoteApi(s, force_local)
    THEN [val |-> IF env.apiRaises THEN None ELSE env.apiToken,
          raised |-> env.apiRaises, api |-> 1, store |-> 0]
    ELSE LET r == LocalLookup(rows, users, 1, env.failAt, None)
         IN [val |-> r.token, raised |-> r.raised, api |-> 0, store |-> r.n]

----------------------------------------------------------------------------
(* The state before any call. *)

Idle ==
    /\ db = {}
    /\ created = {}
    /\ http = <<>>
    /\ pages = <<>>
    /\ log = <<>>
    /\ queries = [api |-> 0, store |-> 0]
    /\ call = [fn |-> "none"]
    /\ pc = "idle"
    /\ session = NoSession
    /\ url = NoUrl
    /\ result = <<>>
    /\ pgRet = "none"
    /\ todo = <<>>
    /\ org_obj = None
    /\ social_account = None
    /\ fetched = 0
    /\ shapes = <<>>
    /\ arisen = <<>>
    /\ invoked = <<>>
    /\ outcome = [kind |-> "none"]

Return(v) == [kind |-> "return", val |-> v]
Raise(type, msg) == [kind |-> "raise", exc |-> type, msg |-> msg]

InitToken ==
    /\ tokens \in Stores
    /\ settings \in SettingsSpace
    /\ accounts = {}
    /\ Idle

GetTokenForProject ==
    /\ pc = "idle"
    /\ \E users \in ProjectUsers, force_local \in BOOLEAN :
         \E env \in LookupEnvs(users) :
           LET r == get_token_for_project(settings, tokens, users, force_local, env) IN
           /\ call' = [fn |-> "get_token_for_project", users |-> users,
                       force_local |-> force_local, env |-> env]
           /\ outcome' = Return(r.val)
           /\ log' = IF r.raised THEN Append(log, <<"Failed to get token for user">>) ELSE log
           /\ queries' = [api |-> r.api, store |-> r.store]
           /\ arisen' = IF r.raised THEN <<<<"Exception", "lookup">>>> ELSE <<>>
    /\ pc' = "done"
    /\ UNCHANGED <<tokens, accounts, settings, db, created, http, pages, session,
                   url, result, pgRet, todo, org_obj, social_account, fetched, shapes, invoked>>

NextToken == GetTokenForProject

SpecToken == InitToken /\ [][NextToken]_vars

TokenCallDone == pc = "done" /\ call.fn = "get_token_for_project"

\* C5: with private-repo access disabled (ALLOW_PRIVATE_REPOS unset or
\* false), get_token_for_project returns nothing, whatever the stored
\* credentials, DONT_HIT_DB and force_local, and queries neither the remote
\* API nor the credential store.
C5_DisabledReturnsNothing ==
    (TokenCallDone /\ settings.ALLOW_PRIVATE_REPOS \in {<<>>, <<FALSE>>})
        => /\ outcome = Return(None)
           /\ queries = [api |-> 0, store |-> 0]
           /\ log = <<>>

\* The case of C5: access is unset, the project's first user has a stored
\* GitHub credential, the local strategy is forced, and the call has ended.
C5_Witness ==
    /\ TokenCallDone
    /\ settings.ALLOW_PRIVATE_REPOS = <<>>
    /\ call.force_local
    /\ call.users # <<>>
    /\ FilterTokens(tokens, call.users[1], GitHubProviderId) # <<>>
    /\ outcome = Return(None)

\* C9 as claimed: with private repos enabled, a lookup during which an
\* exception arose returns nothing.
C9_ExceptionYieldsNothing ==
    (TokenCallDone /\ AllowPrivateRepos(settings) /\ arisen # <<>>)
        => outcome = Return(None)

----------------------------------------------------------------------------
(* What the vendors may answer. *)

\* A response: valid says whether the body is JSON, json is the decoded
\* body, links the parsed Link header (requests' r.links).
Response(valid, json, links) == [valid |-> valid, json |-> json, links |-> links]

NotJson(links) == Response(FALSE, JNull, links)

\* A well-formed repository item, and an item that is no object.
Repo(i) == JObj(<<JEntry("full_name", JStr(ToString(i)))>>)
BadItem == JNum("7")

\* Arrays of at most m items: repositories 1..n, or repositories 1..n
\* followed by one malformed item.
ItemArrays(m) ==
    {[i \in 1..n |-> Repo(i)] : n \in 0..m}
    \cup {[i \in 1..(n+1) |-> IF i <= n THEN Repo(i) ELSE BadItem] : n \in 0..(m-1)}

\* The longest array a vendor answers with: MaxItems to a paginator called
\* directly, MaxRepos to one called by an importer.
ItemBound(ret) == IF ret = "top" THEN MaxItems ELSE MaxRepos

ErrorObject ==
    JObj(<<JEntry("message", JStr("Bad credentials")),
           JEntry("documentation_url", JStr("https://developer.github.com/v3"))>>)

\* The URL of the page after the n-th of a chain.
NextUrl(n) == ToString(n + 1)

NoLinks == JObj(<<>>)
NextLink(u) == JObj(<<JEntry("next", JObj(<<JEntry("url", JStr(u))>>))>>)

\* The longest chain of pages a vendor answers with: MaxPages to a
\* paginator called directly, MaxSyncPages to one called by an importer.
PageBound(ret) == IF ret = "top" THEN MaxPages ELSE MaxSyncPages

\* The link headers a page may carry when n pages were fetched before it,
\* in a chain of at most p pages.
LinkHeaders(n, p) == {NoLinks} \cup (IF n + 1 < p THEN {NextLink(NextUrl(n + 1))} ELSE {})

GithubListBodies(m) ==
    {JNull, ErrorObject, JObj(<<>>), JStr("ab")} \cup {JArr(x) : x \in ItemArrays(m)}

GithubListResponses(n, m, p) ==
    {Response(TRUE, j, l) : j \in GithubListBodies(m), l \in LinkHeaders(n, p)}
    \cup {NotJson(NoLinks)}

\* The `next` entries a Bitbucket page may carry when n pages were fetched
\* before it, in a chain of at most p pages: none, or the URL of the
\* following page.
NextEntries(n, p) == {<<>>} \cup (IF n + 1 < p THEN {<<JEntry("next", JStr(NextUrl(n + 1)))>>} ELSE {})

\* A `next` entry that is no text: a falsy one, or, when a page may follow,
\* a truthy one; a vendor answers a paginator called directly with them.
OddNextEntries(n, p, ret) ==
    IF ret = "top"
    THEN {<<JEntry("next", JNum("0.0"))>>}
         \cup (IF n + 1 < p THEN {<<JEntry("next", JBool(TRUE))>>} ELSE {})
    ELSE {}

ValuesEntries(m) == {<<>>, <<JEntry("values", JNull)>>}
                    \cup {<<JEntry("values", JArr(x))>> : x \in ItemArrays(m)}

BitbucketPageResponses(n, m, p, ret) ==
    {Response(TRUE, JObj(v \o nx), NoLinks) :
        v \in ValuesEntries(m), nx \in NextEntries(n, p) \cup OddNextEntries(n, p, ret)}
    \cup {Response(TRUE, JArr(<<>>), NoLinks), NotJson(NoLinks)}

\* The kind of body of a response.
Shape(r) == IF r.valid THEN r.json.k ELSE "invalid"

\* session.get(u): the text of u, or the value passed in its place.
Get(u) == [method |-> "GET", url |-> u.text, value |-> u.val,
           data |-> [format |-> "none"], headers |-> <<>>]

----------------------------------------------------------------------------
(* github_paginate and bitbucket_paginate: one iteration of the loop. *)

\* Lines 172-174: url = None, then `if next_url: url = next_url`.
UrlOf(j) == IF Truthy(j) THEN UrlValue(j) ELSE NoUrl

GithubPaginateIterReplacing(res, r) ==
    LET j == RJson(r) IN
    IF j.exc # "" THEN {[exc |-> j.exc, result |-> res, url |-> NoUrl]}
    ELSE {IF it.exc # "" THEN [exc |-> it.exc, result |-> res, url |-> NoUrl]
          ELSE LET next_url == PyGet(r.links, "next").val IN
               [exc |-> "", result |-> it.seq,
                url |-> IF Truthy(next_url) THEN UrlValue(PyGet(next_url, "url").val)
                        ELSE NoUrl] :
          it \in PyIter(j.val)}

\* r = session.get(url); result.extend(r.json()); url = next link or None:
\* the possible outcomes of one iteration.
GithubPaginateIter(res, r) ==
    LET j == RJson(r) IN
    IF j.exc # "" THEN {[exc |-> j.exc, result |-> res, url |-> NoUrl]}
    ELSE {IF it.exc # "" THEN [exc |-> it.exc, result |-> res, url |-> NoUrl]
          ELSE LET next_url == PyGet(r.links, "next").val IN
               [exc |-> "", result |-> res \o it.seq,
                url |-> IF Truthy(next_url) THEN UrlValue(PyGet(next_url, "url").val)
                        ELSE NoUrl] :
          it \in PyIter(j.val)}

BitbucketPaginateIterFlattening(res, r) ==
    LET j == RJson(r) IN
    IF j.exc # "" THEN [exc |-> j.exc, result |-> res, url |-> NoUrl]
    ELSE LET next_url == PyGet(j.val, "next") IN
         IF next_url.exc # ""
         THEN [exc |-> next_url.exc, result |-> res \o <<j.val>>, url |-> NoUrl]
         ELSE [exc |-> "",
               result |-> res \o (IF HasKey(j.val, "values") /\ ValueOf(j.val, "values").k = "arr"
                                  THEN ValueOf(j.val, "values").a ELSE <<>>),
               url |-> UrlOf(next_url.val)]

\* r = session.get(url); result.extend([r.json()]); url = r.json().get('next') or None
BitbucketPaginateIter(res, r) ==
    LET j == RJson(r) IN
    IF j.exc # "" THEN [exc |-> j.exc, result |-> res, url |-> NoUrl]
    ELSE LET next_url == PyGet(j.val, "next") IN
         IF next_url.exc # ""
         THEN [exc |-> next_url.exc, result |-> res \o <<j.val>>, url |-> NoUrl]
         ELSE [exc |-> "", result |-> res \o <<j.val>>, url |-> UrlOf(next_url.val)]

\* `while url:` on entry: the loop is entered at fn when the start URL is
\* truthy, else the paginator returns at once, to ret.
LoopEntry(fn, u, ret) == IF UrlTruthy(u) THEN fn ELSE ret

----------------------------------------------------------------------------
(* Where an exception goes: the try statement around each place. *)

GithubReposMsg == "Could not sync your GitHub repositories, try reconnecting your account"
GithubOrgsMsg == "Could not sync your GitHub organizations, try reconnecting your account"
BitbucketReposMsg == "Could not sync your Bitbucket repositories, try reconnecting your account"
BitbucketTeamsMsg == "Could not sync your Bitbucket team repositories, try reconnecting your account"

\* The places of the importers an exception can arise at, and the phase of
\* the import each belongs to.
Phase(site) ==
    CASE site \in {"gh_owner_fetch", "gh_phase1", "bb_phase1"} -> "1"
      [] site \in {"gh_phase2", "bb_phase2"} -> "2"
      [] OTHER -> "none"

\* How the running call ends when exc arises at site.
Except(site, exc) ==
    CASE site = "gh_phase1" /\ exc \in {"TypeError", "ValueError"} ->
            Raise("Exception", GithubReposMsg)
      [] site = "gh_phase2" /\ exc \in {"TypeError", "ValueError"} ->
            Raise("Exception", GithubOrgsMsg)
      [] site = "bb_phase1" /\ exc \in {"TypeError", "ValueError"} ->
            Raise("Exception", BitbucketReposMsg)
      [] site = "bb_phase2" /\ exc = "ValueError" ->
            Raise("Exception", BitbucketTeamsMsg)
      [] OTHER -> Raise(exc, "")

\* The try statement around each call of a paginator.
SiteOfCall(ret) ==
    CASE ret = "gh_owner_repos" -> "gh_owner_fetch"
      [] ret = "gh_org_repos" -> "gh_phase2"
      [] ret = "bb_owner_repos" -> "bb_phase1"
      [] ret = "bb_team_repos" -> "bb_phase2"
      [] OTHER -> "top"

\* The running call ends with the exception exc, arisen at site.
Fail(site, exc) ==
    /\ outcome' = Except(site, exc)
    /\ arisen' = Append(arisen, <<exc, Phase(site)>>)
    /\ pc' = "done"

----------------------------------------------------------------------------
(* The paginators, called directly or by an importer. *)

\* One iteration of `while url:` of github_paginate.
GithubPaginateStep ==
    /\ pc = "github_paginate"
    /\ \E r \in GithubListResponses(fetched, ItemBound(pgRet), PageBound(pgRet)) :
       \E it \in GithubPaginateIter(result, r) :
         /\ http' = Append(http, Get(url))
         /\ fetched' = fetched + 1
         /\ shapes' = Append(shapes, Shape(r))
         /\ pages' = IF pgRet = "top" THEN Append(pages, r) ELSE pages
         /\ IF it.exc # ""
            THEN /\ Fail(SiteOfCall(pgRet), it.exc)
                 /\ UNCHANGED <<result, url>>
            ELSE /\ result' = it.result
                 /\ url' = it.url
                 /\ pc' = IF UrlTruthy(it.url) THEN pc ELSE pgRet
                 /\ UNCHANGED <<arisen, outcome>>
    /\ UNCHANGED <<tokens, accounts, settings, db, created, log, queries, call,
                   session, pgRet, todo, org_obj, social_account, invoked>>

\* One iteration of `while url:` of bitbucket_paginate.
BitbucketPaginateStep ==
    /\ pc = "bitbucket_paginate"
    /\ \E r \in BitbucketPageResponses(fetched, ItemBound(pgRet), PageBound(pgRet), pgRet) :
         LET it == BitbucketPaginateIter(result, r) IN
         /\ http' = Append(http, Get(url))
         /\ fetched' = fetched + 1
         /\ shapes' = Append(shapes, Shape(r))
         /\ pages' = IF pgRet = "top" THEN Append(pages, r) ELSE pages
         /\ IF it.exc # ""
            THEN /\ Fail(SiteOfCall(pgRet), it.exc)
                 /\ UNCHANGED <<result, url>>
            ELSE /\ result' = it.result
                 /\ url' = it.url
                 /\ pc' = IF UrlTruthy(it.url) THEN pc ELSE pgRet
                 /\ UNCHANGED <<arisen, outcome>>
    /\ UNCHANGED <<tokens, accounts, settings, db, created, log, queries, call,
                   session, pgRet, todo, org_obj, social_account, invoked>>

\* The start URLs of a direct call: two texts, the empty text and None.
StartUrls == {Text(<<"https://api.github.com/user/repos?per_page=100">>),
              Text(<<"https://bitbucket.org/api/2.0/repositories/", "alice">>),
              Text(<<"">>), NoUrl}

\* github_paginate(session, url) or bitbucket_paginate(session, url), called
\* directly.
PaginateCall ==
    /\ pc = "idle"
    /\ \E fn \in {"github_paginate", "bitbucket_paginate"}, u \in StartUrls :
         /\ call' = [fn |-> fn, url |-> u]
         /\ url' = u
         /\ pc' = LoopEntry(fn, u, "top")
    /\ result' = <<>>
    /\ fetched' = 0
    /\ shapes' = <<>>
    /\ pgRet' = "top"
    /\ UNCHANGED <<tokens, accounts, settings, db, created, http, pages, log,
                   queries, session, todo, org_obj, social_account, arisen, outcome, invoked>>

\* `return result` of a paginator called directly.
PaginateReturn ==
    /\ pc = "top"
    /\ outcome' = Return(result)
    /\ pc' = "done"
    /\ UNCHANGED <<tokens, accounts, settings, db, created, http, pages, log,
                   queries, call, session, url, result, pgRet, todo, org_obj,
                   social_account, fetched, arisen, shapes, invoked>>

InitPaginate ==
    /\ tokens = <<>>
    /\ accounts = {}
    /\ settings \in {st \in SettingsSpace : st.DONT_HIT_DB = <<>> /\ st.ALLOW_PRIVATE_REPOS = <<>>}
    /\ Idle

NextPaginate ==
    \/ PaginateCall
    \/ GithubPaginateStep
    \/ BitbucketPaginateStep
    \/ PaginateReturn

SpecPaginate == InitPaginate /\ [][NextPaginate]_vars

\* The items of the pages ps, page after page.
RECURSIVE ConcatItems(_)
ConcatItems(ps) ==
    IF ps = <<>> THEN <<>> ELSE Head(ps).json.a \o ConcatItems(Tail(ps))

\* The URL the Link header of page r names as next, if any.
LinkNext(r) ==
    IF HasKey(r.links, "next") THEN UrlValue(ValueOf(ValueOf(r.links, "next"), "url"))
    ELSE NoUrl

\* What the body of page r names as next, if anything: a falsy `next`
\* names nothing.
BodyNext(r) ==
    IF HasKey(r.json, "next") /\ Truthy(ValueOf(r.json, "next"))
    THEN UrlValue(ValueOf(r.json, "next")) ELSE NoUrl

\* The requests follow the chain: the first is for the start URL, each
\* later one for what the page before named, only the last page names
\* nothing, and no page is fetched exactly when the start URL is falsy.
FollowsChain(next(_)) ==
    /\ Len(http) = Len(pages)
    /\ \A i \in 1..Len(http) :
          http[i] = Get(IF i = 1 THEN call.url ELSE next(pages[i-1]))
    /\ \A i \in 1..Len(pages) : (~UrlTruthy(next(pages[i]))) <=> (i = Len(pages))
    /\ (Len(pages) = 0) <=> ~UrlTruthy(call.url)

\* C2: over a finite chain of pages of item arrays linked by the `next`
\* relation of the Link header, github_paginate issues one GET per page in
\* chain order, stops at the first page without a `next` link and returns
\* the concatenation of the pages' items in page order.
C2_GithubPaginateFlat ==
    (/\ pc = "done"
     /\ call.fn = "github_paginate"
     /\ \A i \in 1..Len(pages) : pages[i].valid /\ pages[i].json.k = "arr")
        => /\ outcome = Return(ConcatItems(pages))
           /\ FollowsChain(LinkNext)

\* The case of C2: a chain of three pages, of 2, 2 and 1 items, was fetched
\* and five items were returned.
C2_Witness ==
    /\ pc = "done"
    /\ call.fn = "github_paginate"
    /\ Len(pages) = 3
    /\ \A i \in 1..3 : pages[i].valid /\ pages[i].json.k = "arr"
    /\ Len(pages[1].json.a) = 2 /\ Len(pages[2].json.a) = 2 /\ Len(pages[3].json.a) = 1
    /\ outcome.kind = "return"
    /\ Len(outcome.val) = 5

\* C3: over a finite chain of page objects linked by a `next` URL in the
\* body, bitbucket_paginate returns one element per fetched page, in fetch
\* order, each the raw page object; the result is as long as the GETs issued.
C3_BitbucketPaginateRaw ==
    (/\ pc = "done"
     /\ call.fn = "bitbucket_paginate"
     /\ \A i \in 1..Len(pages) : pages[i].valid /\ pages[i].json.k = "obj")
        => /\ outcome = Return([i \in 1..Len(pages) |-> pages[i].json])
           /\ Len(outcome.val) = Len(http)
           /\ FollowsChain(BodyNext)

\* The case of C3: two linked pages, the first holding two repositories.
C3_Witness ==
    /\ pc = "done"
    /\ call.fn = "bitbucket_paginate"
    /\ Len(pages) = 2
    /\ \A i \in 1..2 : pages[i].valid /\ pages[i].json.k = "obj"
    /\ HasKey(pages[1].json, "values")
    /\ ValueOf(pages[1].json, "values") = JArr(<<Repo(1), Repo(2)>>)
    /\ outcome.kind = "return"
    /\ Len(outcome.val) = 2

----------------------------------------------------------------------------
(* The RemoteRepository / RemoteOrganization rows and their creation. *)

\* str(j) of a scalar, as '%s' % j and '{}'.format(j) give it.
PyStr(j) ==
    CASE j.k \in {"str", "num"} -> j.s
      [] j.k = "null" -> "None"
      [] j.k = "bool" -> IF j.s = "true" THEN "True" ELSE "False"

Row(type, vendor, name, user, organization) ==
    [type |-> type, vendor |-> vendor, name |-> name, user |-> user,
     organization |-> organization]

SameIdentity(r, q) == r.type = q.type /\ r.vendor = q.vendor /\ r.name = q.name

\* Create or update: one row per external identity.
Upsert(rows, row) == {r \in rows : ~SameIdentity(r, row)} \cup {row}

\* RemoteRepository.objects.create_from_github_api(api_json, user, organization)
\* and its Bitbucket counterpart: the row of a well-formed item; an item
\* that is no object raises TypeError, an object without a name KeyError.
CreateRepo(vendor, api_json, user, organization) ==
    LET name == PyGetItem(api_json, "full_name") IN
    IF name.exc # "" THEN [exc |-> name.exc, row |-> Row("repo", vendor, "", user, None)]
    ELSE [exc |-> "", row |-> Row("repo", vendor, PyStr(name.val), user, organization)]

\* RemoteOrganization.objects.create_from_github_api(api_json, user)
CreateOrg(api_json, user) ==
    LET login == PyGetItem(api_json, "login") IN
    IF login.exc # "" THEN [exc |-> login.exc, row |-> Row("org", "github", "", user, None)]
    ELSE [exc |-> "", row |-> Row("org", "github", PyStr(login.val), user, None)]

\* `for repo in items: create(repo, ...)`: the rows after it, the number of
\* items created, and the exception that ended it, if any.
RECURSIVE CreateReposLoop(_, _, _, _, _)
CreateReposLoop(vendor, rows, items, user, organization) ==
    IF items = <<>> THEN [db |-> rows, n |-> 0, exc |-> ""]
    ELSE LET c == CreateRepo(vendor, Head(items), user, organization) IN
         IF c.exc # "" THEN [db |-> rows, n |-> 0, exc |-> c.exc]
         ELSE LET rest == CreateReposLoop(vendor, Upsert(rows, c.row), Tail(items),
                                          user, organization)
              IN [db |-> rest.db, n |-> rest.n + 1, exc |-> rest.exc]

\* The loop as a transaction: the rows it created are dropped when an item
\* fails.
CreateReposRollingBack(vendor, rows, items, user, organization) ==
    LET r == CreateReposLoop(vendor, rows, items, user, organization)
    IN IF r.exc # "" THEN [db |-> rows, n |-> r.n, exc |-> r.exc] ELSE r

CreateRepos(vendor, rows, items, user, organization) ==
    CreateReposLoop(vendor, rows, items, user, organization)

\* The rows of the first n items.
RowsOf(vendor, items, n, user, organization) ==
    {CreateRepo(vendor, items[i], user, organization).row : i \in 1..n}

----------------------------------------------------------------------------
(* import_github *)

OrgJson(name) == JObj(<<JEntry("login", JStr(name))>>)

OrgNames == {"acme", "zeta"}

\* What /user/orgs may answer: at most MaxOrgs organizations, possibly
\* followed by an item that is no object.
OrgsBodies ==
    {JNull, ErrorObject, JStr("a")}
    \cup {JArr([i \in 1..Len(ns) |-> OrgJson(ns[i])]) :
            ns \in {x \in SeqsUpTo(OrgNames, MaxOrgs) :
                       \A i, j \in 1..Len(x) : x[i] = x[j] => i = j}}
    \cup {JArr(<<BadItem>>)}

OrgsResponses == {Response(TRUE, j, NoLinks) : j \in OrgsBodies} \cup {NotJson(NoLinks)}

\* What /orgs/<login> may answer.
OrgDetailResponses(login) ==
    {Response(TRUE, OrgJson(login), NoLinks), Response(TRUE, JNull, NoLinks),
     NotJson(NoLinks)}

HasSessionAlways(sess) == TRUE

\* `session is not None` (and the truth of `session`)
HasSession(sess) == sess # NoSession

\* `if sync and session:`
SyncWanted(sync, sess) == sync /\ HasSession(sess)

\* The call and lines 91-94: without sync or session the result is returned
\* at once, else the pagination of the user's repositories starts.
ImportGithubCall ==
    /\ pc = "idle"
    /\ \E user \in Users, sync \in BOOLEAN :
         LET s == get_oauth_session(tokens, user, GitHubProviderId).val IN
         /\ call' = [fn |-> "import_github", user |-> user, sync |-> sync]
         /\ session' = s
         /\ IF SyncWanted(sync, s)
            THEN /\ url' = Text(<<"https://api.github.com/user/repos?per_page=100">>)
                 /\ pgRet' = "gh_owner_repos"
                 /\ pc' = LoopEntry("github_paginate",
                                   Text(<<"https://api.github.com/user/repos?per_page=100">>),
                                   "gh_owner_repos")
                 /\ UNCHANGED outcome
            ELSE /\ outcome' = Return(HasSession(s))
                 /\ pc' = "done"
                 /\ UNCHANGED <<url, pgRet>>
    /\ result' = <<>>
    /\ fetched' = 0
    /\ shapes' = <<>>
    /\ UNCHANGED <<tokens, accounts, settings, db, created, http, pages, log,
                   queries, todo, org_obj, social_account, arisen, invoked>>

\* Lines 95-100: the user's repositories are created.
ImportGithubOwnerRepos ==
    /\ pc = "gh_owner_repos"
    /\ LET r == CreateRepos("github", db, result, call.user, None) IN
       /\ result' = <<>>
       /\ db' = r.db
       /\ created' = created \cup RowsOf("github", result, r.n, call.user, None)
       /\ IF r.exc # ""
          THEN Fail("gh_phase1", r.exc)
          ELSE /\ pc' = "gh_get_orgs"
               /\ UNCHANGED <<arisen, outcome>>
    /\ UNCHANGED <<tokens, accounts, settings, http, pages, log, queries, call,
                   session, url, pgRet, todo, org_obj, social_account, fetched, shapes, invoked>>

\* Lines 104-105: /user/orgs is fetched and its JSON iterated.
ImportGithubGetOrgs ==
    /\ pc = "gh_get_orgs"
    /\ http' = Append(http, Get(Text(<<"https://api.github.com/user/orgs">>)))
    /\ \E resp \in OrgsResponses :
         LET j == RJson(resp) IN
         \E it \in (IF j.exc # "" THEN {[exc |-> j.exc, seq |-> <<>>]} ELSE PyIter(j.val)) :
            IF it.exc # ""
            THEN /\ Fail("gh_phase2", it.exc)
                 /\ UNCHANGED todo
            ELSE /\ todo' = it.seq
                 /\ pc' = "gh_org_loop"
                 /\ UNCHANGED <<arisen, outcome>>
    /\ UNCHANGED <<tokens, accounts, settings, db, created, pages, log, queries,
                   call, session, url, result, pgRet, org_obj, social_account,
                   fetched, shapes, invoked>>

\* Lines 105-113: the next organization is fetched and created, and the
\* pagination of its repositories starts.
ImportGithubOrg ==
    /\ pc = "gh_org_loop"
    /\ todo # <<>>
    /\ LET login == PyGetItem(Head(todo), "login") IN
       IF login.exc # ""
       THEN /\ Fail("gh_phase2", login.exc)
            /\ UNCHANGED <<http, db, created, org_obj, url, pgRet, result, fetched, todo, shapes>>
       ELSE /\ http' = Append(http, Get(Text(<<"https://api.github.com/orgs/", PyStr(login.val)>>)))
            /\ \E org_resp \in OrgDetailResponses(PyStr(login.val)) :
                 LET j == RJson(org_resp)
                     c == IF j.exc # "" THEN [exc |-> j.exc] ELSE CreateOrg(j.val, call.user)
                 IN IF c.exc # ""
                    THEN /\ Fail("gh_phase2", c.exc)
                         /\ UNCHANGED <<db, created, org_obj, url, pgRet, result, fetched, todo, shapes>>
                    ELSE /\ db' = Upsert(db, c.row)
                         /\ created' = created \cup {c.row}
                         /\ org_obj' = Some(c.row.name)
                         /\ url' = Text(<<"https://api.github.com/orgs/", PyStr(login.val),
                                          "/repos?per_page=100">>)
                         /\ result' = <<>>
                         /\ fetched' = 0
                         /\ shapes' = <<>>
                         /\ pgRet' = "gh_org_repos"
                         /\ todo' = Tail(todo)
                         /\ pc' = LoopEntry("github_paginate",
                                           Text(<<"https://api.github.com/orgs/",
                                                  PyStr(login.val), "/repos?per_page=100">>),
                                           "gh_org_repos")
                         /\ UNCHANGED <<arisen, outcome>>
    /\ UNCHANGED <<tokens, accounts, settings, pages, log, queries, call, session,
                   social_account, invoked>>

\* Lines 114-116: the organization's repositories are created.
ImportGithubOrgRepos ==
    /\ pc = "gh_org_repos"
    /\ LET r == CreateRepos("github", db, result, call.user, org_obj) IN
       /\ result' = <<>>
       /\ db' = r.db
       /\ created' = created \cup RowsOf("github", result, r.n, call.user, org_obj)
       /\ IF r.exc # ""
          THEN Fail("gh_phase2", r.exc)
          ELSE /\ pc' = "gh_org_loop"
               /\ UNCHANGED <<arisen, outcome>>
    /\ UNCHANGED <<tokens, accounts, settings, http, pages, log, queries, call,
                   session, url, pgRet, todo, org_obj, social_account, fetched, shapes, invoked>>

\* Line 121: the loop over the organizations is over.
ImportGithubReturn ==
    /\ pc = "gh_org_loop"
    /\ todo = <<>>
    /\ outcome' = Return(HasSession(session))
    /\ pc' = "done"
    /\ UNCHANGED <<tokens, accounts, settings, db, created, http, pages, log,
                   queries, call, session, url, result, pgRet, todo, org_obj,
                   social_account, fetched, arisen, shapes, invoked>>

ImportGithub ==
    \/ ImportGithubCall
    \/ ImportGithubOwnerRepos
    \/ ImportGithubGetOrgs
    \/ ImportGithubOrg
    \/ ImportGithubOrgRepos
    \/ ImportGithubReturn

----------------------------------------------------------------------------
(* import_bitbucket *)

AccountRows == [username : Users, provider : {BitbucketProviderId}, uid : {"uid", "uid2"}]

\* Lines 191-194, user.socialaccount_set.get(provider=...): the one matching
\* row; None where the code leaves social_account unbound (DoesNotExist is
\* passed over); several matching rows raise MultipleObjectsReturned, which
\* nothing catches.
SocialAccountOf(rows, username, provider) ==
    LET matching == {a \in rows : a.username = username /\ a.provider = provider}
    IN IF matching = {} THEN [exc |-> "", val |-> None]
       ELSE IF Cardinality(matching) = 1
       THEN [exc |-> "", val |-> Some(CHOOSE a \in matching : TRUE)]
       ELSE [exc |-> "MultipleObjectsReturned", val |-> None]

\* j.keys(): only a dict has the method.
PyKeys(j) ==
    IF j.k = "obj" THEN {[exc |-> "", seq |-> ks] : ks \in Keys(j)}
    ELSE {[exc |-> "AttributeError", seq |-> <<>>]}

TeamsJson(names) ==
    JObj(<<JEntry("teams", JObj([i \in 1..Len(names) |-> JEntry(names[i], JStr("admin"))]))>>)

\* What /user/privileges/ may answer; the text of `teams` may name a team
\* twice, or two teams.
PrivilegesBodies ==
    {JNull, JArr(<<>>), JObj(<<>>), JObj(<<JEntry("teams", JArr(<<>>))>>),
     TeamsJson(<<"acme", "acme">>), TeamsJson(<<"acme", "zeta">>)}
    \cup {TeamsJson(ns) : ns \in {x \in SeqsUpTo(OrgNames, MaxOrgs) :
                                    \A i, j \in 1..Len(x) : x[i] = x[j] => i = j}}

PrivilegesResponses ==
    {Response(TRUE, j, NoLinks) : j \in PrivilegesBodies} \cup {NotJson(NoLinks)}

\* process_bitbucket_json(user, json), as the set of its possible outcomes:
\* the rows after it, the rows it created, the exception it lets through,
\* and whether it swallowed (and printed) a TypeError, which ends it.
RECURSIVE process_bitbucket_json(_, _, _)
process_bitbucket_json(rows, user, json) ==
    IF json = <<>>
    THEN {[db |-> rows, made |-> {}, exc |-> "", swallowed |-> FALSE]}
    ELSE LET values == PyGetItem(Head(json), "values")
             its == IF values.exc # "" THEN {[exc |-> values.exc, seq |-> <<>>]}
                    ELSE PyIter(values.val)
         IN UNION {
              LET r == CreateRepos("bitbucket", rows, it.seq, user, None)
                  made == RowsOf("bitbucket", it.seq, r.n, user, None)
                  exc == IF it.exc # "" THEN it.exc ELSE r.exc
              IN IF exc = "TypeError"
                 THEN {[db |-> r.db, made |-> made, exc |-> "", swallowed |-> TRUE]}
                 ELSE IF exc # ""
                 THEN {[db |-> r.db, made |-> made, exc |-> exc, swallowed |-> FALSE]}
                 ELSE {[db |-> rest.db, made |-> made \cup rest.made, exc |-> rest.exc,
                        swallowed |-> rest.swallowed] :
                       rest \in process_bitbucket_json(r.db, user, Tail(json))} :
              it \in its}

\* The call and lines 190-201: without sync or session the result is
\* returned at once, else the pagination of the user's repositories starts.
ImportBitbucketCall ==
    /\ pc = "idle"
    /\ \E user \in Users, sync \in BOOLEAN :
         LET s == get_oauth_session(tokens, user, BitbucketProviderId).val
             got == SocialAccountOf(accounts, user, BitbucketProviderId)
             acc == got.val
         IN
         /\ call' = [fn |-> "import_bitbucket", user |-> user, sync |-> sync]
         /\ session' = s
         /\ social_account' = acc
         /\ IF got.exc # ""
            THEN /\ Fail("bb_account", got.exc)
                 /\ UNCHANGED <<url, pgRet>>
            ELSE IF ~SyncWanted(sync, s)
            THEN /\ outcome' = Return(HasSession(s))
                 /\ pc' = "done"
                 /\ UNCHANGED <<url, pgRet, arisen>>
            ELSE IF acc = None
            THEN /\ Fail("bb_phase1", "UnboundLocalError")
                 /\ UNCHANGED <<url, pgRet>>
            ELSE /\ url' = Text(<<"https://bitbucket.org/api/2.0/repositories/", acc[1].uid>>)
                 /\ pgRet' = "bb_owner_repos"
                 /\ pc' = LoopEntry("bitbucket_paginate",
                                   Text(<<"https://bitbucket.org/api/2.0/repositories/",
                                          acc[1].uid>>),
                                   "bb_owner_repos")
                 /\ UNCHANGED <<outcome, arisen>>
    /\ result' = <<>>
    /\ fetched' = 0
    /\ shapes' = <<>>
    /\ UNCHANGED <<tokens, accounts, settings, db, created, http, pages, log,
                   queries, todo, org_obj, invoked>>

\* Line 202, and lines 203-205 around it: the user's pages are processed.
ImportBitbucketOwnerRepos ==
    /\ pc = "bb_owner_repos"
    /\ \E r \in process_bitbucket_json(db, call.user, result) :
       /\ result' = <<>>
       /\ db' = r.db
       /\ created' = created \cup r.made
       /\ IF r.exc # ""
          THEN Fail("bb_phase1", r.exc)
          ELSE /\ pc' = "bb_privileges"
               /\ arisen' = IF r.swallowed THEN Append(arisen, <<"TypeError", "1">>)
                            ELSE arisen
               /\ UNCHANGED outcome
    /\ UNCHANGED <<tokens, accounts, settings, http, pages, log, queries, call,
                   session, url, pgRet, todo, org_obj, social_account, fetched, shapes, invoked>>

\* Lines 208-210: the privileges are fetched and the team names taken.
ImportBitbucketPrivileges ==
    /\ pc = "bb_privileges"
    /\ http' = Append(http, Get(Text(<<"https://bitbucket.org/api/1.0/user/privileges/">>)))
    /\ \E resp \in PrivilegesResponses :
         LET j == RJson(resp)
             teams == IF j.exc # "" THEN [exc |-> j.exc, val |-> JNull]
                      ELSE PyGetItem(j.val, "teams")
         IN
         \E keys \in (IF teams.exc # "" THEN {[exc |-> teams.exc, seq |-> <<>>]}
                      ELSE PyKeys(teams.val)) :
            IF keys.exc # ""
            THEN /\ Fail("bb_phase2", keys.exc)
                 /\ UNCHANGED todo
            ELSE /\ todo' = keys.seq
                 /\ pc' = "bb_team_loop"
                 /\ UNCHANGED <<arisen, outcome>>
    /\ UNCHANGED <<tokens, accounts, settings, db, created, pages, log, queries,
                   call, session, url, result, pgRet, org_obj, social_account,
                   fetched, shapes, invoked>>

\* Lines 210-214: the pagination of the next team's repositories starts.
ImportBitbucketTeam ==
    /\ pc = "bb_team_loop"
    /\ todo # <<>>
    /\ url' = Text(<<"https://bitbucket.org/api/2.0/teams/", PyStr(Head(todo)), "/repositories">>)
    /\ todo' = Tail(todo)
    /\ result' = <<>>
    /\ fetched' = 0
    /\ shapes' = <<>>
    /\ pgRet' = "bb_team_repos"
    /\ pc' = LoopEntry("bitbucket_paginate",
                      Text(<<"https://bitbucket.org/api/2.0/teams/", PyStr(Head(todo)),
                             "/repositories">>),
                      "bb_team_repos")
    /\ UNCHANGED <<tokens, accounts, settings, db, created, http, pages, log,
                   queries, call, session, org_obj, social_account, arisen, outcome, invoked>>

\* Line 215, and lines 216-218 around it: the team's pages are processed.
ImportBitbucketTeamRepos ==
    /\ pc = "bb_team_repos"
    /\ \E r \in process_bitbucket_json(db, call.user, result) :
       /\ result' = <<>>
       /\ db' = r.db
       /\ created' = created \cup r.made
       /\ IF r.exc # ""
          THEN Fail("bb_phase2", r.exc)
          ELSE /\ pc' = "bb_team_loop"
               /\ arisen' = IF r.swallowed THEN Append(arisen, <<"TypeError", "2">>)
                            ELSE arisen
               /\ UNCHANGED outcome
    /\ UNCHANGED <<tokens, accounts, settings, http, pages, log, queries, call,
                   session, url, pgRet, todo, org_obj, social_account, fetched, shapes, invoked>>

\* Line 220: the loop over the teams is over.
ImportBitbucketReturn ==
    /\ pc = "bb_team_loop"
    /\ todo = <<>>
    /\ outcome' = Return(HasSession(session))
    /\ pc' = "done"
    /\ UNCHANGED <<tokens, accounts, settings, db, created, http, pages, log,
                   queries, call, session, url, result, pgRet, todo, org_obj,
                   social_account, fetched, arisen, shapes, invoked>>

ImportBitbucket ==
    \/ ImportBitbucketCall
    \/ ImportBitbucketOwnerRepos
    \/ ImportBitbucketPrivileges
    \/ ImportBitbucketTeam
    \/ ImportBitbucketTeamRepos
    \/ ImportBitbucketReturn

----------------------------------------------------------------------------
(* The importers, over every store of at most one credential. The user    *)
(* has linked no Bitbucket account, one, or two; import_github never reads *)
(* the accounts, so the second one is drawn only beside the stores without *)
(* a GitHub credential.                                                    *)

InitImport ==
    /\ tokens \in {st \in Stores : Len(st) <= 1 /\ \A i \in 1..Len(st) : st[i].token = "tokA"}
    /\ accounts \in {{}, {a \in AccountRows : a.username = "alice" /\ a.uid = "uid"},
                    {a \in AccountRows : a.username = "alice"}}
    /\ Cardinality(accounts) = 2 => \A i \in 1..Len(tokens) : tokens[i].provider # GitHubProviderId
    /\ settings \in {st \in SettingsSpace : st.DONT_HIT_DB = <<>> /\ st.ALLOW_PRIVATE_REPOS = <<>>}
    /\ Idle

NextImport ==
    \/ ImportGithub
    \/ GithubPaginateStep
    \/ ImportBitbucket
    \/ BitbucketPaginateStep

SpecImport == InitImport /\ [][NextImport]_vars

ImportDone == pc = "done" /\ call.fn \in {"import_github", "import_bitbucket"}

ProviderOf(fn) == IF fn = "import_github" THEN GitHubProviderId ELSE BitbucketProviderId

\* A stored credential matches the user and the provider of the running
\* importer.
CredentialStored ==
    \E i \in 1..Len(tokens) : /\ tokens[i].username = call.user
                              /\ tokens[i].provider = ProviderOf(call.fn)

\* Every row the call upserted is stored, and nothing else is.
StoredAreCreated ==
    /\ db \subseteq created
    /\ \A c \in created : \E r \in db : SameIdentity(r, c)

\* The requests only the second phase of an importer issues.
IsPhase2Request(q) ==
    q.url[1] \in {"https://api.github.com/user/orgs", "https://api.github.com/orgs/",
                  "https://bitbucket.org/api/1.0/user/privileges/",
                  "https://bitbucket.org/api/2.0/teams/"}

\* C1 as claimed: for a user with no stored credential matching the user
\* and the provider, get_oauth_session returns None and the importer
\* returns false, whatever the sync flag, having issued no HTTP request and
\* upserted no row.
C1_NoCredentialNoWork ==
    (ImportDone /\ ~CredentialStored)
        => /\ get_oauth_session(tokens, call.user, ProviderOf(call.fn)) =
                  [exc |-> "", val |-> NoSession]
           /\ outcome = Return(FALSE)
           /\ http = <<>>
           /\ db = {} /\ created = {}

\* C4 as claimed: when a page of /user/repos fetched by import_github is no
\* array, import_github raises the reconnect error of the first phase.
C4_NonArrayRaisesReconnect ==
    (/\ pc = "done"
     /\ call.fn = "import_github"
     /\ pgRet = "gh_owner_repos"
     /\ \E i \in 1..Len(shapes) : shapes[i] \in {"null", "num", "bool", "str", "obj"})
        => outcome = Raise("Exception", GithubReposMsg)

\* C7 as claimed: every call of an importer yields the boolean that tells
\* whether a session was obtainable.
C7_AlwaysReturnsBoolean ==
    ImportDone => outcome = Return(CredentialStored)

\* C7, amended: whenever an importer returns rather than raises, it returns
\* true exactly when a session was obtainable for the user, whatever the
\* sync flag and the vendors' answers.
C7_ReturnedIffSession ==
    (ImportDone /\ outcome.kind = "return") => outcome.val = CredentialStored

\* The case of C7: import_bitbucket returned true after a sync during which
\* a TypeError arose (and was swallowed by process_bitbucket_json), so the
\* value does not depend on the sync having succeeded.
C7_Witness ==
    /\ ImportDone
    /\ call.fn = "import_bitbucket"
    /\ call.sync
    /\ arisen # <<>>
    /\ http # <<>>
    /\ outcome = Return(TRUE)

\* C8 as claimed: a TypeError or ValueError arising in a phase of
\* import_bitbucket ends the call with the reconnect error of that phase.
C8_BitbucketErrorsReraised ==
    (/\ pc = "done"
     /\ call.fn = "import_bitbucket")
        => \A i \in 1..Len(arisen) :
              (arisen[i][1] \in {"TypeError", "ValueError"})
                 => outcome = Raise("Exception",
                                    IF arisen[i][2] = "1" THEN BitbucketReposMsg
                                    ELSE BitbucketTeamsMsg)

\* C10: nothing is rolled back and nothing follows a failure: when an
\* importer raises, the stored rows are exactly those upserted before the
\* failing step, the call is over (no later request or upsert), and after a
\* failure in the first phase no request of the second phase was issued.
C10_NoRollback ==
    (call.fn \in {"import_github", "import_bitbucket"} /\ outcome.kind = "raise")
        => /\ pc = "done"
           /\ ~ENABLED NextImport
           /\ StoredAreCreated
           /\ arisen # <<>>
           /\ (arisen[Len(arisen)][2] = "1")
                 => \A i \in 1..Len(http) : ~IsPhase2Request(http[i])

\* The case of C10: import_github raised in its first phase after it had
\* upserted a repository.
C10_Witness ==
    /\ ImportDone
    /\ call.fn = "import_github"
    /\ outcome = Raise("Exception", GithubReposMsg)
    /\ created # {}
    /\ db = created

----------------------------------------------------------------------------
(* add_github_webhook and add_bitbucket_webhook *)

\* The source URLs of the projects.
ProjectRepos ==
    {<<"git@github.com:", "owner", "/", "repo", ".git">>,
     <<"https://github.com/", "rtfd", "/", "docs">>,
     <<"https://bitbucket.org/", "owner", "/", "repo">>}

\* build_utils.get_github_username_repo(url): the owner and the repository
\* of a GitHub URL, (None, None) of any other.
get_github_username_repo(repo) ==
    IF repo[1] \in {"git@github.com:", "https://github.com/"}
    THEN <<JStr(repo[2]), JStr(repo[4])>>
    ELSE <<JNull, JNull>>

\* build_utils.get_bitbucket_username_repo(url)
get_bitbucket_username_repo(repo) ==
    IF repo[1] \in {"git@bitbucket.org:", "https://bitbucket.org/"}
    THEN <<JStr(repo[2]), JStr(repo[4])>>
    ELSE <<JNull, JNull>>

Post(u, data, headers) == [method |-> "POST", url |-> u, data |-> data, headers |-> headers]

StatusCodes == {201, 422}

\* The request of add_github_webhook (lines 125-135).
GithubWebhookRequest(s, repo) ==
    LET names == get_github_username_repo(repo) IN
    Post(<<"https://api.github.com/repos/", PyStr(names[1]), "/", PyStr(names[2]), "/hooks">>,
         [format |-> "json", name |-> "readthedocs", active |-> TRUE,
          config |-> [url |-> <<"https://">> \o s.PRODUCTION_DOMAIN \o <<"/github">>]],
         <<<<"content-type", "application/json">>>>)

\* The request of add_bitbucket_webhook (lines 141-151).
BitbucketWebhookRequest(s, repo) ==
    LET names == get_bitbucket_username_repo(repo) IN
    Post(<<"https://api.bitbucket.org/1.0/repositories/", PyStr(names[1]), "/",
           PyStr(names[2]), "/services">>,
         [format |-> "form", type |-> "POST",
          url |-> <<"https://">> \o s.PRODUCTION_DOMAIN \o <<"/bitbucket">>],
         <<>>)

\* A registrar that first looks whether it already asked for the hook.
add_github_webhook_once(sent, s, repo) ==
    IF \E i \in 1..Len(sent) : sent[i] = GithubWebhookRequest(s, repo)
    THEN sent
    ELSE Append(sent, GithubWebhookRequest(s, repo))

\* add_github_webhook(session, project): the requests sent so far, and after.
add_github_webhook(sent, s, repo) == Append(sent, GithubWebhookRequest(s, repo))

add_bitbucket_webhook(sent, s, repo) == Append(sent, BitbucketWebhookRequest(s, repo))

AddGithubWebhook ==
    /\ Len(invoked) < MaxCalls
    /\ \E user \in Users :
         /\ HasSession(get_oauth_session(tokens, user, GitHubProviderId).val)
         /\ session' = get_oauth_session(tokens, user, GitHubProviderId).val
    /\ \E repo \in ProjectRepos, code \in StatusCodes :
         /\ call' = [fn |-> "add_github_webhook", repo |-> repo]
         /\ invoked' = Append(invoked, [fn |-> "add_github_webhook", repo |-> repo])
         /\ http' = add_github_webhook(http, settings, repo)
         /\ log' = Append(log, <<"Creating GitHub webhook response code: ", ToString(code)>>)
         /\ outcome' = Return([status_code |-> code])
    /\ UNCHANGED <<tokens, accounts, settings, db, created, pages, queries, pc,
                   url, result, pgRet, todo, org_obj, social_account, fetched,
                   shapes, arisen>>

AddBitbucketWebhook ==
    /\ Len(invoked) < MaxCalls
    /\ \E user \in Users :
         /\ HasSession(get_oauth_session(tokens, user, BitbucketProviderId).val)
         /\ session' = get_oauth_session(tokens, user, BitbucketProviderId).val
    /\ \E repo \in ProjectRepos, code \in StatusCodes :
         /\ call' = [fn |-> "add_bitbucket_webhook", repo |-> repo]
         /\ invoked' = Append(invoked, [fn |-> "add_bitbucket_webhook", repo |-> repo])
         /\ http' = add_bitbucket_webhook(http, settings, repo)
         /\ log' = Append(log, <<"Creating BitBucket webhook response code: ", ToString(code)>>)
         /\ outcome' = Return([status_code |-> code])
    /\ UNCHANGED <<tokens, accounts, settings, db, created, pages, queries, pc,
                   url, result, pgRet, todo, org_obj, social_account, fetched,
                   shapes, arisen>>

InitWebhook ==
    /\ tokens \in {st \in Stores : Len(st) = 1}
    /\ accounts = {}
    /\ settings \in {st \in SettingsSpace : st.DONT_HIT_DB = <<>> /\ st.ALLOW_PRIVATE_REPOS = <<>>}
    /\ Idle

NextWebhook == AddGithubWebhook \/ AddBitbucketWebhook

SpecWebhook == InitWebhook /\ [][NextWebhook]_vars

\* C6: every invocation of add_github_webhook issues exactly one POST, to
\* https://api.github.com/repos/{owner}/{repo}/hooks with the owner and the
\* repository of the project's URL and a JSON body with "active": true,
\* whatever the status of the response and whatever was invoked before: the
\* i-th invocation is the i-th request, so n invocations issue n POSTs.
C6_OnePostPerInvocation ==
    /\ Len(http) = Len(invoked)
    /\ \A i \in 1..Len(invoked) :
          invoked[i].fn = "add_github_webhook" =>
             /\ http[i].method = "POST"
             /\ Len(http[i].url) = 5
             /\ http[i].url[1] = "https://api.github.com/repos/"
             /\ http[i].url[3] = "/"
             /\ http[i].url[5] = "/hooks"
             /\ (invoked[i].repo[1] \in {"git@github.com:", "https://github.com/"}
                   => /\ http[i].url[2] = invoked[i].repo[2]
                      /\ http[i].url[4] = invoked[i].repo[4])
             /\ http[i].data.format = "json"
             /\ http[i].data.active = TRUE

\* The case of C6: the webhook of git@github.com:owner/repo.git was
\* registered twice in a row, and two POSTs to
\* https://api.github.com/repos/owner/repo/hooks were issued.
C6_Witness ==
    /\ Len(invoked) >= 2
    /\ invoked[1] = [fn |-> "add_github_webhook",
                     repo |-> <<"git@github.com:", "owner", "/", "repo", ".git">>]
    /\ invoked[2] = invoked[1]
    /\ http[1].url = <<"https://api.github.com/repos/", "owner", "/", "repo", "/hooks">>
    /\ http[2] = http[1]
    /\ http[1].data.active = TRUE

====
